---- MODULE Spec2Model ----
(***************************************************************************)
(* Model of argparser.hpp: the type-erased argument slots (AnyTypeArg /    *)
(* TypeHandler<T>) with their per-type string conversions, and the         *)
(* Parser registry with its token scan, required-argument validation and   *)
(* error aggregation.                                                      *)
(*                                                                         *)
(* Strings are sequences of one-character strings, so concatenation,       *)
(* substr, comparison and the strto* scans are modelled by what they do.   *)
(* Integers are sign/magnitude records whose magnitude is a little-endian  *)
(* sequence of 16-bit limbs, so 32- and 64-bit widths are kept exactly.    *)
(***************************************************************************)
EXTENDS Integers, Sequences, FiniteSets, TLC

VARIABLES
    longBits,    \* width of long / unsigned long of the build (LLP64: 32, LP64: 64)
    self,        \* the concrete Parser subclass in use ("none": a bare TypeHandler)
    _argData,    \* Parser::_argData: name token -> slot
    slots,       \* the TypeHandler objects, by slot
    addr,        \* heap order of the TypeHandler objects (order of AnyTypeArg* keys)
    _errorMsg,   \* Parser::_errorMsg
    pc,          \* position of the caller / of parse()
    argv,        \* parse(): argv[1..argc-1]
    i,           \* parse(): the cursor
    error,       \* parse(): the local error flag
    out_arg,     \* parse(): the caller's vector, [given, vec]
    retval,      \* what parse() returned
    events,      \* history: one record per scan step / conversion of the current call
    slots0,      \* history: the slots when the current parse() call began
    lastSignal   \* history: per slot, what its most recent setValue returned

vars == <<longBits, self, _argData, slots, addr, _errorMsg, pc, argv, i, error,
          out_arg, retval, events, slots0, lastSignal>>

(***************************************************************************)
(* Bounds                                                                  *)
(***************************************************************************)
\* longest argument vector handed to parse() (program name excluded)
MaxArgs == 3
\* longest raw string enumerated over RawAlphabet for a bare conversion
MaxRawLen == 2

(***************************************************************************)
(* Strings                                                                 *)
(***************************************************************************)
Range(s) == {s[k] : k \in DOMAIN s}

SeqsUpTo(S, n) == UNION {[1..k -> S] : k \in 0..n}

\* the character codes of the characters the model uses (ASCII)
Code(c) ==
    CASE c = "\n" -> 10 [] c = " " -> 32 [] c = "\"" -> 34 [] c = "+" -> 43
      [] c = "," -> 44 [] c = "-" -> 45 [] c = "." -> 46
      [] c = "0" -> 48 [] c = "1" -> 49 [] c = "2" -> 50 [] c = "3" -> 51
      [] c = "4" -> 52 [] c = "5" -> 53 [] c = "6" -> 54 [] c = "7" -> 55
      [] c = "8" -> 56 [] c = "9" -> 57 [] c = ":" -> 58
      [] c = "a" -> 97 [] c = "c" -> 99 [] c = "e" -> 101 [] c = "g" -> 103
      [] c = "h" -> 104 [] c = "i" -> 105 [] c = "l" -> 108 [] c = "m" -> 109
      [] c = "n" -> 110 [] c = "o" -> 111 [] c = "p" -> 112 [] c = "s" -> 115
      [] c = "t" -> 116 [] c = "u" -> 117 [] c = "x" -> 120
      [] c = "f" -> 102 [] c = "r" -> 114

\* std::string operator< : lexicographic on the character codes
RECURSIVE StrLess(_, _)
StrLess(a, b) ==
    IF b = <<>> THEN FALSE
    ELSE IF a = <<>> THEN TRUE
    ELSE IF Head(a) = Head(b) THEN StrLess(Tail(a), Tail(b))
    ELSE Code(Head(a)) < Code(Head(b))

\* std::string::substr(0, n)
substr0(s, n) == SubSeq(s, 1, IF n < Len(s) THEN n ELSE Len(s))

isspace(c) == c \in {" ", "\n"}
isdigit(c) == c \in {"0", "1", "2", "3", "4", "5", "6", "7", "8", "9"}
DigitVal(c) == Code(c) - 48

(***************************************************************************)
(* Integers of fixed width                                                 *)
(***************************************************************************)
Limb == 2^16

RECURSIVE Norm(_)
Norm(m) == IF m # <<>> /\ m[Len(m)] = 0 THEN Norm(SubSeq(m, 1, Len(m) - 1)) ELSE m

\* m * 10 + carry, limb by limb
RECURSIVE MulAdd10(_, _)
MulAdd10(m, carry) ==
    IF m = <<>> THEN (IF carry = 0 THEN <<>> ELSE <<carry>>)
    ELSE LET t == Head(m) * 10 + carry
         IN  <<t % Limb>> \o MulAdd10(Tail(m), t \div Limb)

\* a < b, both normalised
RECURSIVE MagLess(_, _)
MagLess(a, b) ==
    IF Len(a) # Len(b) THEN Len(a) < Len(b)
    ELSE IF a = <<>> THEN FALSE
    ELSE IF a[Len(a)] # b[Len(b)] THEN a[Len(a)] < b[Len(b)]
    ELSE MagLess(SubSeq(a, 1, Len(a) - 1), SubSeq(b, 1, Len(b) - 1))

\* a - b for a >= b, limb by limb (not normalised)
RECURSIVE MagSubB(_, _, _)
MagSubB(a, b, borrow) ==
    IF a = <<>> THEN <<>>
    ELSE LET bl == IF b = <<>> THEN 0 ELSE Head(b)
             t  == Head(a) - bl - borrow
         IN  <<IF t < 0 THEN t + Limb ELSE t>>
               \o MagSubB(Tail(a), IF b = <<>> THEN <<>> ELSE Tail(b), IF t < 0 THEN 1 ELSE 0)

MagSub(a, b) == Norm(MagSubB(a, b, 0))

\* 2^k
Pow2(k) == [j \in 1..(k \div 16) |-> 0] \o <<2^(k % 16)>>

\* m mod 2^bits (bits a multiple of 16)
MagMod(m, bits) == Norm(SubSeq(m, 1, IF Len(m) < bits \div 16 THEN Len(m) ELSE bits \div 16))

Zero == [neg |-> FALSE, mag |-> <<>>]
MkInt(neg, mag) == [neg |-> neg /\ mag # <<>>, mag |-> mag]

\* a small natural as a value
RECURSIVE NatMag(_)
NatMag(n) == IF n = 0 THEN <<>> ELSE <<n % Limb>> \o NatMag(n \div Limb)
Num(n) == IF n < 0 THEN MkInt(TRUE, NatMag(0 - n)) ELSE MkInt(FALSE, NatMag(n))

\* conversion of an integer to a signed type of the given width (modulo 2^bits)
ToSigned(v, bits) ==
    LET r       == MagMod(v.mag, bits)
        pattern == IF v.neg /\ r # <<>> THEN MagSub(Pow2(bits), r) ELSE r
    IN  IF MagLess(pattern, Pow2(bits - 1)) THEN MkInt(FALSE, pattern)
        ELSE MkInt(TRUE, MagSub(Pow2(bits), pattern))

\* conversion of an integer to an unsigned type of the given width (modulo 2^bits)
ToUnsigned(v, bits) ==
    LET r == MagMod(v.mag, bits)
    IN  MkInt(FALSE, IF v.neg /\ r # <<>> THEN MagSub(Pow2(bits), r) ELSE r)

(***************************************************************************)
(* strtol / strtoll / strtoul / strtoull, base 10                          *)
(***************************************************************************)
RECURSIVE SkipSpace(_, _)
SkipSpace(s, p) == IF p <= Len(s) /\ isspace(s[p]) THEN SkipSpace(s, p + 1) ELSE p

RECURSIVE DigitsEnd(_, _)
DigitsEnd(s, p) == IF p <= Len(s) /\ isdigit(s[p]) THEN DigitsEnd(s, p + 1) ELSE p

RECURSIVE Magnitude(_, _, _, _)
Magnitude(s, p, q, acc) ==
    IF p >= q THEN acc ELSE Magnitude(s, p + 1, q, MulAdd10(acc, DigitVal(s[p])))

\* the subject sequence of s: sign, magnitude and the index of the first
\* character after it (1: no conversion, end == nptr; Len(s) + 1: *end == 0)
Scan(s) ==
    LET p    == SkipSpace(s, 1)
        sign == p <= Len(s) /\ s[p] \in {"+", "-"}
        d    == IF sign THEN p + 1 ELSE p
        q    == DigitsEnd(s, d)
    IN  IF q = d THEN [neg |-> FALSE, mag |-> <<>>, end |-> 1]
        ELSE [neg |-> sign /\ s[p] = "-", mag |-> Magnitude(s, d, q, <<>>), end |-> q]

\* signed: out-of-range values saturate at the limits of the return type
strtoSigned(s, bits) ==
    LET sc  == Scan(s)
        max == MagSub(Pow2(bits - 1), <<1>>)
        min == Pow2(bits - 1)
    IN  [val |-> IF sc.neg THEN MkInt(TRUE, IF MagLess(min, sc.mag) THEN min ELSE sc.mag)
                 ELSE MkInt(FALSE, IF MagLess(max, sc.mag) THEN max ELSE sc.mag),
         end |-> sc.end]

\* unsigned: out-of-range magnitudes saturate, a minus sign negates in the return type
strtoUnsigned(s, bits) ==
    LET sc  == Scan(s)
        max == MagSub(Pow2(bits), <<1>>)
    IN  [val |-> IF MagLess(max, sc.mag) THEN MkInt(FALSE, max)
                 ELSE ToUnsigned(MkInt(sc.neg, sc.mag), bits),
         end |-> sc.end]

strtol(s)   == strtoSigned(s, longBits)
strtoll(s)  == strtoSigned(s, 64)
strtoul(s)  == strtoUnsigned(s, longBits)
strtoull(s) == strtoUnsigned(s, 64)

(***************************************************************************)
(* AnyTypeArg / TypeHandler<T>                                             *)
(***************************************************************************)
SignedTypes   == {"int", "long", "llong"}
UnsignedTypes == {"uint", "ulong", "ullong"}
IntegerTypes  == SignedTypes \cup UnsignedTypes
Types         == {"string", "cstr", "bool", "char"} \cup IntegerTypes

\* the width of each integer type T
Bits(T) ==
    CASE T \in {"int", "uint"}     -> 32
      [] T \in {"long", "ulong"}   -> longBits
      [] T \in {"llong", "ullong"} -> 64

\* the '\0' a char slot reads from an empty string
NUL == "NUL"

QUOTE   == <<"\"">>
NOT_INT == <<" ", "i", "s", " ", "n", "o", "t", " ", "a", "n", " ", "i", "n", "t", "e", "g", "e", "r", ".">>
NOT_POS == <<" ", "i", "s", " ", "n", "o", "t", " ", "a", " ", "p", "o", "s", "i", "t", "i", "v", "e", " ", "i", "n", "t", "e", "g", "e", "r", ".">>

\* new TypeHandler<T>() followed by setValue(defaultValue), setRequired(required)
TypeHandler(T, defaultValue, required) ==
    [type |-> T, _value |-> defaultValue, _required |-> required,
     _set |-> FALSE, _errorMsg |-> <<>>]

\* a conversion's outcome: the handler afterwards and the returned signal
Outcome(h, signal) == [h |-> h, ret |-> signal]

\* TypeHandler<std::string>::setValueChar and TypeHandler<char*>::setValueChar
setValueChar_string(h, value) == Outcome([h EXCEPT !._value = value], 1)

\* the check every numeric specialisation makes on strto*'s end pointer
EndRejected(value, end) == end = 1 \/ end <= Len(value)

\* TypeHandler<int>, <long>, <long long>::setValueChar
setValueChar_signed(h, value) ==
    LET r      == IF h.type = "llong" THEN strtoll(value) ELSE strtol(value)
        stored == [h EXCEPT !._value = ToSigned(r.val, Bits(h.type))]
    IN  IF EndRejected(value, r.end)
        THEN Outcome([stored EXCEPT !._errorMsg = QUOTE \o value \o QUOTE \o NOT_INT], -1)
        ELSE Outcome(stored, 1)

\* TypeHandler<unsigned int>, <unsigned long>, <unsigned long long>::setValueChar
setValueChar_unsigned(h, value) ==
    LET r      == IF h.type = "ullong" THEN strtoull(value) ELSE strtoul(value)
        stored == [h EXCEPT !._value = ToUnsigned(r.val, Bits(h.type))]
    IN  IF EndRejected(value, r.end)
        THEN Outcome([stored EXCEPT !._errorMsg = QUOTE \o value \o QUOTE \o NOT_POS], -1)
        ELSE Outcome(stored, 1)

\* setValueChar_bool signalling that it used the value
setValueChar_bool_Consuming(h, value) == Outcome([h EXCEPT !._value = ~h._value], 1)

\* TypeHandler<bool>::setValueChar: the argument is not read
setValueChar_bool(h, value) == Outcome([h EXCEPT !._value = ~h._value], 0)

\* TypeHandler<char>::setValueChar: value[0], the terminator of an empty string
setValueChar_char(h, value) ==
    Outcome([h EXCEPT !._value = IF value = <<>> THEN NUL ELSE value[1]], 0)

setValueChar(h, value) ==
    CASE h.type \in {"string", "cstr"} -> setValueChar_string(h, value)
      [] h.type \in SignedTypes        -> setValueChar_signed(h, value)
      [] h.type \in UnsignedTypes      -> setValueChar_unsigned(h, value)
      [] h.type = "bool"               -> setValueChar_bool(h, value)
      [] h.type = "char"               -> setValueChar_char(h, value)

\* setValue marking the slot as set only when the conversion did not fail
setValue_SetOnSuccess(h, value) ==
    LET res == setValueChar(h, value)
    IN  IF res.ret < 0 THEN res ELSE Outcome([res.h EXCEPT !._set = TRUE], res.ret)

\* TypeHandler<T>::setValue(const char*)
setValue(h, value) == setValueChar([h EXCEPT !._set = TRUE], value)

\* whether the specialisation for T dereferences its argument
ReadsValue(T) == T # "bool"

(***************************************************************************)
(* Parser: the subclasses in use                                           *)
(***************************************************************************)
\* one arg<T>(LongName, ShortName, defaultValue, helpMessage, required) call
Decl(T, LongName, ShortName, defaultValue, required) ==
    [T |-> T, LongName |-> LongName, ShortName |-> ShortName,
     defaultValue |-> defaultValue, required |-> required]

\* The programs: a Parser subclass together with its caller.
\*   "example": struct parser and main() of examples/simpleExample/main.cpp
\*   "flags":   one boolean flag, the virtuals left as they are
\*   "helper":  binds -h itself (a required flag), the virtuals left as they are
\*   "tool":    overrides AllowUnknownArguments() to return true
\*   "nohelp":  overrides HelpEnabled() to return false; two required arguments
ParserClasses == {"example", "flags", "helper", "tool", "nohelp"}

Declarations(class) ==
    CASE class = "example" ->
           << Decl("cstr", <<"m", "s", "g">>, <<"m">>, <<>>, TRUE),
              Decl("uint", <<"t", "i", "m", "e", "s">>, <<"t">>, Num(1), FALSE),
              Decl("bool", <<"n", "u", "m">>, <<"n">>, FALSE, FALSE) >>
      [] class = "flags" ->
           << Decl("bool", <<"n", "u", "m">>, <<"n">>, FALSE, FALSE) >>
      [] class = "helper" ->
           << Decl("bool", <<"h", "e", "x">>, <<"h">>, FALSE, TRUE) >>
      [] class = "tool" ->
           << Decl("int", <<"c", "o", "u", "n", "t">>, <<"c">>, Num(0), TRUE),
              Decl("char", <<"s", "e", "p">>, <<"s">>, ",", FALSE) >>
      [] class = "nohelp" ->
           << Decl("long", <<"h", "e", "i", "g", "h", "t">>, <<"h">>, Num(0), TRUE),
              Decl("bool", <<"f", "o", "r", "c", "e">>, <<"f">>, FALSE, TRUE) >>

\* Parser::HelpEnabled (virtual, true unless overridden)
HelpEnabled == self # "nohelp"

\* Parser::AllowUnknownArguments (virtual, false unless overridden)
AllowUnknownArguments == self = "tool"

\* whether the caller passes a vector as out_arg (main.cpp does) or leaves it nullptr
GivesOut(class) == class \in {"example", "flags", "tool"}

\* the tokens the caller's argv is made of
ArgTokens(class) ==
    CASE class = "example" -> { <<"-", "m">>, <<"-", "t">>, <<"3">> }
      [] class = "flags"   -> { <<"-", "n">>, <<"-", "-", "n", "u", "m">>, <<"-", "x">> }
      [] class = "helper"  -> { <<"-", "h">>, <<"-", "-", "h", "e", "l", "p">>, <<"-", "x">> }
      [] class = "tool"    -> { <<"-", "c">>, <<"-", "s">>, <<"7">> }
      [] class = "nohelp"  -> { <<"-", "h">>, <<"-", "-", "h", "e", "l", "p">>, <<"2">> }

\* Parser::arg<T>: one new TypeHandler, bound under "--LongName" and "-ShortName";
\* std::map::insert keeps an entry that is already there
arg(reg, d) ==
    LET value    == Len(reg.slots) + 1
        withLong == IF d.LongName # <<>>
                    THEN reg.argData @@ ((<<"-", "-">> \o d.LongName) :> value)
                    ELSE reg.argData
        withBoth == IF d.ShortName # <<>>
                    THEN withLong @@ ((<<"-">> \o d.ShortName) :> value)
                    ELSE withLong
    IN  [argData |-> withBoth,
         slots   |-> Append(reg.slots, TypeHandler(d.T, d.defaultValue, d.required))]

\* the member initialisers of a subclass, in declaration order
RECURSIVE Construct(_, _)
Construct(reg, decls) ==
    IF decls = <<>> THEN reg ELSE Construct(arg(reg, Head(decls)), Tail(decls))

Constructed(class) == Construct([argData |-> <<>>, slots |-> <<>>], Declarations(class))

\* the keys of a std::map<const std::string, ...> in iteration order
RECURSIVE SortedKeys(_)
SortedKeys(S) ==
    IF S = {} THEN <<>>
    ELSE LET k == CHOOSE x \in S : \A y \in S \ {x} : StrLess(x, y)
         IN  <<k>> \o SortedKeys(S \ {k})

\* the orders in which the heap can lay out the objects of S
HeapOrders(S) ==
    {p \in [1..Cardinality(S) -> S] : \A a, b \in DOMAIN p : p[a] = p[b] => a = b}

(***************************************************************************)
(* Parser::parse                                                           *)
(***************************************************************************)
HELP_LONG       == <<"-", "-", "h", "e", "l", "p">>
HELP_SHORT      == <<"-", "h">>
NL              == <<"\n">>
SEP             == <<",", " ">>
OR              == <<" ", "o", "r", " ">>
UNKNOWN_PREFIX  == <<"U", "n", "k", "n", "o", "w", "n", " ", "a", "r", "g", "u", "m", "e", "n", "t", ":", " ">>
ERROR_PREFIX    == <<"E", "r", "r", "o", "r", " ", "i", "n", " ", "a", "r", "g", "u", "m", "e", "n", "t", ":", " ">>
REQUIRED_PREFIX == <<"T", "h", "e", " ", "f", "o", "l", "l", "o", "w", "i", "n", "g", " ", "r", "e", "q", "u", "i", "r", "e", "d", " ", "a", "r", "g", "u", "m", "e", "n", "t", "s", " ", "w", "a", "s", " ", "n", "o", "t", " ", "s", "e", "t", ":", " ">>

\* argc of the call (argv[0] is the program name)
argc == Len(argv) + 1

\* AddLine without the separating newline
AddLine_NoNewline(msg, line) == msg \o line

\* _errorMsg += _errorMsg == "" ? "" : "\n"; _errorMsg += line;
AddLine(msg, line) == msg \o (IF msg = <<>> THEN <<>> ELSE NL) \o line

\* HelpRequested without the test on argc
HelpRequested_AnyLength(args) ==
    HelpEnabled /\ Len(args) >= 1 /\ (args[1] = HELP_LONG \/ args[1] = HELP_SHORT)

\* the test that sends parse() to the help path
HelpRequested(args) ==
    HelpEnabled /\ Len(args) + 1 = 2 /\ (args[1] = HELP_LONG \/ args[1] = HELP_SHORT)

\* the test parse() makes on setValue's return value
IsError(retVal) == retVal < 0 \/ retVal > 1

\* Advance stepping over the flag alone when the conversion failed
Advance_FlagOnlyOnError(cursor, retVal) ==
    IF IsError(retVal) THEN cursor + 1 ELSE cursor + 1 + retVal

\* the cursor after a matched argument at i: argv[++i], then ++i or i += retVal
Advance(cursor, retVal) == IF IsError(retVal) THEN cursor + 2 ELSE cursor + 1 + retVal

\* what reading argv[argc] can yield where the array is not null-terminated
Garbage == { <<>>, <<"7">> }

\* lines 296-308: ReqSorter, filled in _argData's iteration order
RECURSIVE FillReqSorter(_, _)
FillReqSorter(keys, ReqSorter) ==
    IF keys = <<>> THEN ReqSorter
    ELSE LET first  == Head(keys)
             second == _argData[first]
         IN  IF slots[second]._required /\ ~slots[second]._set
             THEN FillReqSorter(Tail(keys),
                      IF second \notin DOMAIN ReqSorter
                      THEN ReqSorter @@ (second :> first)
                      ELSE [ReqSorter EXCEPT ![second] = @ \o OR \o first])
             ELSE FillReqSorter(Tail(keys), ReqSorter)

ReqSorterNow == FillReqSorter(SortedKeys(DOMAIN _argData), <<>>)

\* lines 314-316: every label followed by ", ", in the order of the AnyTypeArg* keys
RECURSIVE JoinLabels(_, _)
JoinLabels(order, ReqSorter) ==
    IF order = <<>> THEN <<>>
    ELSE (IF Head(order) \in DOMAIN ReqSorter THEN ReqSorter[Head(order)] \o SEP ELSE <<>>)
         \o JoinLabels(Tail(order), ReqSorter)

\* lines 310-319: the summary line, appended when something is missing
WithRequiredLine(msg, err, ReqSorter) ==
    IF err /\ DOMAIN ReqSorter # {}
    THEN LET full == AddLine(msg, REQUIRED_PREFIX) \o JoinLabels(addr, ReqSorter)
         IN  substr0(full, Len(full) - 2)
    ELSE msg

\* FinalError with the required-argument check left out of the returned flag
FinalError_ScanOnly(err, ReqSorter) == err

\* lines 298-300 and 321: the flag parse() returns the negation of
FinalError(err, ReqSorter) == err \/ DOMAIN ReqSorter # {}

\* UnknownToken with the test on AllowUnknownArguments() the other way round, as
\* the comment on that method describes it
UnknownToken_Inverted(token, out, err, msg) ==
    [out |-> IF out.given THEN [out EXCEPT !.vec = Append(@, token)] ELSE out,
     err |-> IF AllowUnknownArguments THEN TRUE ELSE err,
     msg |-> IF AllowUnknownArguments THEN AddLine(msg, UNKNOWN_PREFIX \o token) ELSE msg]

\* lines 265-275: what an unbound token does to the caller's vector, the flag and the report
UnknownToken(token, out, err, msg) ==
    [out |-> IF out.given THEN [out EXCEPT !.vec = Append(@, token)] ELSE out,
     err |-> IF ~AllowUnknownArguments THEN TRUE ELSE err,
     msg |-> IF ~AllowUnknownArguments THEN AddLine(msg, UNKNOWN_PREFIX \o token) ELSE msg]

\* lines 283-287: what a conversion's return value does to the flag and the report
Converted(token, res, err, msg) ==
    [err |-> IF IsError(res.ret) THEN TRUE ELSE err,
     msg |-> IF IsError(res.ret)
             THEN AddLine(msg, ERROR_PREFIX \o token \o SEP \o res.h._errorMsg)
             ELSE msg]

Event(kind, slot, value, pastEnd, ret, next) ==
    [at |-> i, token |-> argv[i], kind |-> kind, slot |-> slot, value |-> value,
     pastEnd |-> pastEnd, ret |-> ret, next |-> next]

\* lines 254-260: the call; the help path prints the help text and exits with status 0
ParseBegin(args) ==
    /\ pc \in {"ready", "returned"}
    /\ self \in ParserClasses
    /\ argv' = args
    /\ out_arg' = [given |-> GivesOut(self), vec |-> <<>>]
    /\ _errorMsg' = <<>>
    /\ error' = FALSE
    /\ i' = 1
    /\ pc' = IF HelpRequested(args) THEN "exited" ELSE "scan"
    /\ events' = <<>>
    /\ slots0' = slots
    /\ retval' = FALSE
    /\ UNCHANGED <<longBits, self, _argData, slots, addr, lastSignal>>

\* lines 265-278: argv[i] is not a key of _argData
ScanUnknown ==
    /\ pc = "scan"
    /\ i < argc
    /\ argv[i] \notin DOMAIN _argData
    /\ LET u == UnknownToken(argv[i], out_arg, error, _errorMsg)
       IN  /\ out_arg' = u.out
           /\ error' = u.err
           /\ _errorMsg' = u.msg
    /\ i' = i + 1
    /\ events' = Append(events, Event("unknown", 0, <<>>, FALSE, 0, i + 1))
    /\ UNCHANGED <<longBits, self, _argData, slots, addr, pc, argv, retval, slots0,
                   lastSignal>>

\* lines 280-292 with `value` what argv[++i] points to
Matched(value, pastEnd) ==
    LET second == _argData[argv[i]]
        res    == setValue(slots[second], value)
        c      == Converted(argv[i], res, error, _errorMsg)
    IN  /\ slots' = [slots EXCEPT ![second] = res.h]
        /\ error' = c.err
        /\ _errorMsg' = c.msg
        /\ i' = Advance(i, res.ret)
        /\ lastSignal' = [lastSignal EXCEPT ![second] = res.ret]
        /\ events' = Append(events,
                        Event("matched", second, value, pastEnd, res.ret, Advance(i, res.ret)))
        /\ UNCHANGED <<longBits, self, _argData, addr, pc, argv, out_arg, retval, slots0>>

\* lines 280-292: argv[i] is a key and argv[i + 1] is a string of the input, or the
\* slot is a boolean, whose conversion never reads its argument
ScanMatched ==
    /\ pc = "scan"
    /\ i < argc
    /\ argv[i] \in DOMAIN _argData
    /\ \/ i + 1 < argc /\ Matched(argv[i + 1], FALSE)
       \/ i + 1 >= argc /\ ~ReadsValue(slots[_argData[argv[i]]].type) /\ Matched(<<>>, TRUE)

\* the matched argument is the last token and its conversion reads its argument
ReadsPastEnd ==
    /\ pc = "scan"
    /\ i < argc
    /\ argv[i] \in DOMAIN _argData
    /\ i + 1 >= argc
    /\ ReadsValue(slots[_argData[argv[i]]].type)

\* setValue sets _set, then strlen, strtol or std::string dereferences a null
\* or dangling pointer and the process dies
PastEndCrash ==
    /\ pc' = "crashed"
    /\ slots' = [slots EXCEPT ![_argData[argv[i]]]._set = TRUE]
    /\ events' = Append(events, Event("crashed", _argData[argv[i]], <<>>, TRUE, 0, i + 1))
    /\ UNCHANGED <<longBits, self, _argData, addr, _errorMsg, argv, i, error,
                   out_arg, retval, slots0, lastSignal>>

\* lines 280-292 reading argv[argc] of an array the caller did not null-terminate:
\* whatever bytes are there, or a fault
ScanMatchedPastEnd ==
    /\ ReadsPastEnd
    /\ \/ \E g \in Garbage : Matched(g, TRUE)
       \/ PastEndCrash

\* lines 280-292 reading argv[argc] of main's argv, which is a null pointer
ScanMatchedNull ==
    /\ ReadsPastEnd
    /\ PastEndCrash

\* lines 296-321: the scan is over; required arguments are checked and parse() returns
ParseFinish ==
    /\ pc = "scan"
    /\ ~(i < argc)
    /\ LET ReqSorter == ReqSorterNow
       IN  /\ _errorMsg' = WithRequiredLine(_errorMsg, FinalError(error, ReqSorter), ReqSorter)
           /\ error' = FinalError(error, ReqSorter)
           /\ retval' = ~FinalError(error, ReqSorter)
    /\ pc' = "returned"
    /\ UNCHANGED <<longBits, self, _argData, slots, addr, argv, i, out_arg, events,
                   slots0, lastSignal>>

LongBitsChoices == {32, 64}

Init ==
    /\ longBits \in LongBitsChoices
    /\ self \in ParserClasses
    /\ _argData = Constructed(self).argData
    /\ slots = Constructed(self).slots
    /\ addr \in HeapOrders({s \in DOMAIN Constructed(self).slots :
                               Constructed(self).slots[s]._required})
    /\ _errorMsg = <<>>
    /\ pc = "ready"
    /\ argv = <<>>
    /\ i = 1
    /\ error = FALSE
    /\ out_arg = [given |-> FALSE, vec |-> <<>>]
    /\ retval = FALSE
    /\ events = <<>>
    /\ slots0 = Constructed(self).slots
    /\ lastSignal = [s \in DOMAIN Constructed(self).slots |-> 0]

Next ==
    \/ \E args \in SeqsUpTo(ArgTokens(self), MaxArgs) : ParseBegin(args)
    \/ ScanUnknown
    \/ ScanMatched
    \/ ScanMatchedPastEnd
    \/ ParseFinish

Spec == Init /\ [][Next]_vars

\* the programs whose caller hands main's own argc and argv to parse()
MainNext ==
    \/ \E args \in SeqsUpTo(ArgTokens(self), MaxArgs) : ParseBegin(args)
    \/ ScanUnknown
    \/ ScanMatched
    \/ ScanMatchedNull
    \/ ParseFinish

MainSpec == Init /\ [][MainNext]_vars

(***************************************************************************)
(* A bare TypeHandler<T>, converted from raw strings by its owner          *)
(***************************************************************************)
\* T(): what new T() holds
DefaultOf(T) ==
    CASE T \in {"string", "cstr"} -> <<>>
      [] T \in IntegerTypes       -> Zero
      [] T = "bool"               -> FALSE
      [] T = "char"               -> NUL

RawAlphabet == {"1", "-", "x"}

\* literals at the limits of the 32- and 64-bit types, and other shapes strto* meets
LimitStrings ==
    { <<"2", "1", "4", "7", "4", "8", "3", "6", "4", "7">>,
      <<"2", "1", "4", "7", "4", "8", "3", "6", "4", "8">>,
      <<"-", "2", "1", "4", "7", "4", "8", "3", "6", "4", "8">>,
      <<"-", "2", "1", "4", "7", "4", "8", "3", "6", "4", "9">>,
      <<"4", "2", "9", "4", "9", "6", "7", "2", "9", "5">>,
      <<"4", "2", "9", "4", "9", "6", "7", "2", "9", "6">>,
      <<"9", "2", "2", "3", "3", "7", "2", "0", "3", "6", "8", "5", "4", "7", "7", "5", "8", "0", "7">>,
      <<"9", "2", "2", "3", "3", "7", "2", "0", "3", "6", "8", "5", "4", "7", "7", "5", "8", "0", "8">>,
      <<"-", "9", "2", "2", "3", "3", "7", "2", "0", "3", "6", "8", "5", "4", "7", "7", "5", "8", "0", "8">>,
      <<"1", "8", "4", "4", "6", "7", "4", "4", "0", "7", "3", "7", "0", "9", "5", "5", "1", "6", "1", "5">>,
      <<"1", "8", "4", "4", "6", "7", "4", "4", "0", "7", "3", "7", "0", "9", "5", "5", "1", "6", "1", "6">>,
      <<" ", "1", "2">>, <<"+", "7">>, <<"1", "2", "x">>, <<"0", "0", "7">>, <<"-", "0">> }

RawStrings == LimitStrings \cup SeqsUpTo(RawAlphabet, MaxRawLen)

ConvInit ==
    /\ longBits \in LongBitsChoices
    /\ self = "none"
    /\ _argData = <<>>
    /\ \E T \in Types : slots = << TypeHandler(T, DefaultOf(T), FALSE) >>
    /\ addr = <<>>
    /\ _errorMsg = <<>>
    /\ pc = "conv"
    /\ argv = <<>>
    /\ i = 1
    /\ error = FALSE
    /\ out_arg = [given |-> FALSE, vec |-> <<>>]
    /\ retval = FALSE
    /\ events = <<>>
    /\ slots0 = <<>>
    /\ lastSignal = <<0>>

\* handler.setValue(raw) on the bare handler
Convert(raw) ==
    /\ pc = "conv"
    /\ LET res == setValue(slots[1], raw)
       IN  /\ slots' = << res.h >>
           /\ lastSignal' = << res.ret >>
           /\ events' = << [value |-> raw, ret |-> res.ret] >>
    /\ UNCHANGED <<longBits, self, _argData, addr, _errorMsg, pc, argv, i, error,
                   out_arg, retval, slots0>>

ConvNext == \E raw \in RawStrings : Convert(raw)

ConvSpec == ConvInit /\ [][ConvNext]_vars

(***************************************************************************)
(* Reading the state: the report's lines, the history of the current call  *)
(***************************************************************************)
StartsWith(s, prefix) == Len(s) >= Len(prefix) /\ SubSeq(s, 1, Len(prefix)) = prefix

\* the pieces of s between the occurrences of sep
Split(s, sep) ==
    LET P      == {k \in 1..(Len(s) - Len(sep) + 1) : SubSeq(s, k, k + Len(sep) - 1) = sep}
        n      == Cardinality(P)
        pos(j) == CHOOSE k \in P : Cardinality({m \in P : m < k}) = j - 1
    IN  [j \in 1..(n + 1) |->
            SubSeq(s, IF j = 1 THEN 1 ELSE pos(j - 1) + Len(sep),
                      IF j = n + 1 THEN Len(s) ELSE pos(j) - 1)]

\* the lines of the aggregated error report
ReportLines == IF _errorMsg = <<>> THEN <<>> ELSE Split(_errorMsg, NL)

SummaryLines == SelectSeq(ReportLines, LAMBDA l : StartsWith(l, REQUIRED_PREFIX))

\* the entries of a summary line
SummaryEntries(line) == Split(SubSeq(line, Len(REQUIRED_PREFIX) + 1, Len(line)), SEP)

Count(seq, x) == Cardinality({k \in DOMAIN seq : seq[k] = x})

InParser == self \in ParserClasses
Returned == InParser /\ pc = "returned"

\* the scan steps of the current call that looked slot s up
MatchesOf(s) == {k \in DOMAIN events : events[k].kind = "matched" /\ events[k].slot = s}

LongToken(s)  == <<"-", "-">> \o Declarations(self)[s].LongName
ShortToken(s) == <<"-">> \o Declarations(self)[s].ShortName
HasBothNames(s) ==
    /\ Declarations(self)[s].LongName # <<>>
    /\ Declarations(self)[s].ShortName # <<>>

(***************************************************************************)
(* C1                                                                      *)
(***************************************************************************)
\* C1: on every parse() call, the first or a later one, a required argument
\* declared with a long and a short name of which neither token is matched in
\* that call's scan makes parse() return false, and the report holds exactly
\* one "The following required arguments was not set: " line, which lists the
\* argument exactly once, as "--<long> or -<short>", and not its names apart.
C1_MissingRequiredOnEveryCall ==
    Returned =>
        \A s \in DOMAIN slots :
            (slots[s]._required /\ HasBothNames(s) /\ MatchesOf(s) = {}) =>
                /\ retval = FALSE
                /\ Len(SummaryLines) = 1
                /\ Count(SummaryEntries(SummaryLines[1]),
                         LongToken(s) \o OR \o ShortToken(s)) = 1
                /\ Count(SummaryEntries(SummaryLines[1]), LongToken(s)) = 0
                /\ Count(SummaryEntries(SummaryLines[1]), ShortToken(s)) = 0

(***************************************************************************)
(* C2                                                                      *)
(***************************************************************************)
UnknownLines == SelectSeq(ReportLines, LAMBDA l : StartsWith(l, UNKNOWN_PREFIX))
ErrorLines   == SelectSeq(ReportLines, LAMBDA l : StartsWith(l, ERROR_PREFIX))

\* the scan steps of the current call whose conversion signalled failure
FailedSteps == {k \in DOMAIN events : events[k].kind = "matched" /\ events[k].ret < 0}

\* C2: parse() returns true exactly when the call produced no "Unknown
\* argument" line, no conversion of the call signalled failure, and no required
\* slot is left with _set false; with unknown arguments allowed or not.
C2_SuccessIffNoError ==
    Returned =>
        (retval = TRUE <=>
            /\ UnknownLines = <<>>
            /\ FailedSteps = {}
            /\ \A s \in DOMAIN slots : slots[s]._required => slots[s]._set)

\* a call that matched arguments and returned true
C2_Witness == Returned /\ retval = TRUE /\ Len(events) >= 2 /\ argv # <<>>

(***************************************************************************)
(* C3                                                                      *)
(***************************************************************************)
\* the text a failed conversion of raw leaves in a slot of type T
ConversionError(T, raw) ==
    QUOTE \o raw \o QUOTE \o (IF T \in UnsignedTypes THEN NOT_POS ELSE NOT_INT)

\* the report line, if any, that scan step e of the current call calls for
LineOf(e) ==
    IF e.token \notin DOMAIN _argData
    THEN IF AllowUnknownArguments THEN <<>> ELSE << UNKNOWN_PREFIX \o e.token >>
    ELSE IF e.kind = "matched" /\ e.ret < 0
         THEN << ERROR_PREFIX \o e.token \o SEP \o ConversionError(slots[e.slot].type, e.value) >>
         ELSE <<>>

RECURSIVE LinesOf(_)
LinesOf(es) == IF es = <<>> THEN <<>> ELSE LineOf(Head(es)) \o LinesOf(Tail(es))

\* the scan steps taken so far start at argv[1] and each starts where the one
\* before it left the cursor
Chained ==
    \A k \in DOMAIN events :
        events[k].at = (IF k = 1 THEN 1 ELSE events[k - 1].next)

\* the scan went through the whole input
ScanComplete ==
    /\ Chained
    /\ (events = <<>>) = (argv = <<>>)
    /\ events # <<>> => events[Len(events)].next > Len(argv)

\* C3: after a parse() call the report holds only lines of that call: one line
\* per unknown token (unknown arguments disallowed) and per failed conversion,
\* in scan order, then at most one required-arguments summary line, last, the
\* lines joined by single newlines; and the scan covered the whole input
\* whatever errors it met.
C3_ReportOfThisCall ==
    Returned =>
        LET expected == LinesOf(events)
            n        == Len(expected)
        IN  /\ ScanComplete
            /\ Len(ReportLines) \in {n, n + 1}
            /\ SubSeq(ReportLines, 1, n) = expected
            /\ Len(ReportLines) = n + 1 => StartsWith(ReportLines[n + 1], REQUIRED_PREFIX)
            /\ \A k \in DOMAIN ReportLines : ReportLines[k] # <<>>

\* an unknown token, then a failed conversion, then the summary line
C3_Witness ==
    /\ Returned
    /\ Len(ReportLines) = 3
    /\ StartsWith(ReportLines[1], UNKNOWN_PREFIX)
    /\ StartsWith(ReportLines[2], ERROR_PREFIX)
    /\ StartsWith(ReportLines[3], REQUIRED_PREFIX)

(***************************************************************************)
(* C4                                                                      *)
(***************************************************************************)
\* the tokens the current call looked up and did not find, in scan order
UnboundScanned ==
    LET es == SelectSeq(events, LAMBDA e : e.token \notin DOMAIN _argData)
    IN  [k \in DOMAIN es |-> es[k].token]

InCall == InParser /\ pc \in {"scan", "returned", "crashed"}

C4_WitnessDisallowed ==
    /\ Returned
    /\ ~AllowUnknownArguments
    /\ out_arg.given
    /\ Len(UnboundScanned) = 2
    /\ Len(UnknownLines) = 2

(***************************************************************************)
(* C5                                                                      *)
(***************************************************************************)
BoolDefaultFalse(s) ==
    /\ slots[s].type = "bool"
    /\ Declarations(self)[s].defaultValue = FALSE

\* after step k the token behind its flag, if there is one, was looked up as a
\* name token of its own
FollowerLookedUp(k) ==
    /\ events[k].next = events[k].at + 1
    /\ events[k].at + 1 <= Len(argv) =>
          \E j \in DOMAIN events :
              /\ j = k + 1
              /\ events[j].at = events[k].at + 1
              /\ events[j].token = argv[events[k].at + 1]
              /\ events[j].kind =
                    (IF argv[events[k].at + 1] \in DOMAIN _argData THEN "matched" ELSE "unknown")

\* C5 as stated: a boolean declared with default false whose flag is scanned
\* exactly once in a parse() call holds true after the call, with _set true,
\* and the token behind the flag is looked up as a name token of its own.
C5_FlagOnceYieldsTrue ==
    Returned =>
        \A s \in DOMAIN slots :
            (BoolDefaultFalse(s) /\ Cardinality(MatchesOf(s)) = 1) =>
                /\ slots[s]._value = TRUE
                /\ slots[s]._set
                /\ \A k \in MatchesOf(s) : FollowerLookedUp(k)

\* C5 amended: the same for a boolean that holds false when the call begins
\* (as it does on the first call after a declaration with default false).
C5_FlagOnceTogglesFalseToTrue ==
    Returned =>
        \A s \in DOMAIN slots :
            (/\ BoolDefaultFalse(s)
             /\ slots0[s]._value = FALSE
             /\ Cardinality(MatchesOf(s)) = 1) =>
                /\ slots[s]._value = TRUE
                /\ slots[s]._set
                /\ \A k \in MatchesOf(s) : FollowerLookedUp(k)

\* the flag once, with an unbound token behind it, on a slot that held false
C5_Witness ==
    /\ Returned
    /\ \E s \in DOMAIN slots :
          /\ BoolDefaultFalse(s)
          /\ slots0[s]._value = FALSE
          /\ Cardinality(MatchesOf(s)) = 1
          /\ \E k \in MatchesOf(s) :
                /\ events[k].at < Len(argv)
                /\ argv[events[k].at + 1] \notin DOMAIN _argData
          /\ slots[s]._value = TRUE

(***************************************************************************)
(* C6                                                                      *)
(***************************************************************************)
InConv == self = "none" /\ events # <<>>

\* an optional sign followed by decimal digits and nothing else
Unsigned(raw) == IF raw # <<>> /\ raw[1] \in {"+", "-"} THEN Tail(raw) ELSE raw
ValidLiteral(raw) == Unsigned(raw) # <<>> /\ \A k \in DOMAIN Unsigned(raw) : isdigit(Unsigned(raw)[k])

\* empty, not starting with a number, or with characters left over after it
InvalidRaw(raw) == ~ValidLiteral(raw) /\ (raw = <<>> \/ ~isspace(raw[1]))

\* the integer a valid literal denotes
Denoted(raw) ==
    MkInt(raw[1] = "-", Magnitude(Unsigned(raw), 1, Len(Unsigned(raw)) + 1, <<>>))

\* C6: for every integer type and every raw string, a valid base-10 literal is
\* converted with signal 1 and the stored value is the integer it denotes; an
\* empty, non-numeric or trailing-garbage string is refused with a negative
\* signal and _errorMsg set to "<raw>" is not an integer. (signed) or
\* "<raw>" is not a positive integer. (unsigned).
C6_IntegerRoundTrip ==
    (InConv /\ slots[1].type \in IntegerTypes) =>
        LET raw == events[1].value
        IN  /\ ValidLiteral(raw) =>
                  /\ events[1].ret = 1
                  /\ slots[1]._value = Denoted(raw)
            /\ InvalidRaw(raw) =>
                  /\ events[1].ret < 0
                  /\ slots[1]._errorMsg = ConversionError(slots[1].type, raw)

\* what does hold: the literal is stored exactly when its value lies in the
\* range of T; the refusals are as C6 says
FitsIn(T, v) ==
    IF T \in UnsignedTypes THEN ~v.neg /\ MagLess(v.mag, Pow2(Bits(T)))
    ELSE IF v.neg THEN ~MagLess(Pow2(Bits(T) - 1), v.mag)
    ELSE MagLess(v.mag, Pow2(Bits(T) - 1))

IntegerRoundTripInRange ==
    (InConv /\ slots[1].type \in IntegerTypes) =>
        LET raw == events[1].value
        IN  /\ ValidLiteral(raw) =>
                  /\ events[1].ret = 1
                  /\ FitsIn(slots[1].type, Denoted(raw)) => slots[1]._value = Denoted(raw)
            /\ InvalidRaw(raw) =>
                  /\ events[1].ret < 0
                  /\ slots[1]._errorMsg = ConversionError(slots[1].type, raw)

(***************************************************************************)
(* C7                                                                      *)
(***************************************************************************)
\* the names under which slot s can appear in a summary line
LabelsOf(s) ==
    { k \in DOMAIN _argData : _argData[k] = s }
      \cup { a \o OR \o b : a, b \in { k \in DOMAIN _argData : _argData[k] = s } }

\* C7: every conversion attempt leaves the slot's _set true, whether it
\* succeeded, failed or used no value; so when the flag of a required numeric
\* argument is matched and its value does not convert, the report has the
\* "Error in argument" line for it and the summary line does not list it.
C7_AttemptMarksSet ==
    InCall =>
        /\ \A k \in DOMAIN events :
              events[k].kind \in {"matched", "crashed"} => slots[events[k].slot]._set
        /\ pc = "returned" =>
              \A k \in FailedSteps :
                  (/\ slots[events[k].slot]._required
                   /\ slots[events[k].slot].type \in IntegerTypes) =>
                      /\ \E n \in DOMAIN ErrorLines :
                            StartsWith(ErrorLines[n], ERROR_PREFIX \o events[k].token \o SEP)
                      /\ \A n \in DOMAIN SummaryLines :
                            Range(SummaryEntries(SummaryLines[n])) \cap LabelsOf(events[k].slot) = {}

\* a required integer argument whose value did not convert, in a call that returned
C7_Witness ==
    /\ Returned
    /\ \E k \in FailedSteps :
          /\ slots[events[k].slot]._required
          /\ slots[events[k].slot].type \in IntegerTypes
          /\ ~events[k].pastEnd

(***************************************************************************)
(* C8                                                                      *)
(***************************************************************************)
HelpTokens == {HELP_LONG, HELP_SHORT}

C8_WitnessDisabled ==
    /\ Returned
    /\ ~HelpEnabled
    /\ argv = << HELP_LONG >>
    /\ Len(events) = 1

(***************************************************************************)
(* C9                                                                      *)
(***************************************************************************)
\* C9: in every reachable state a slot's _errorMsg is empty unless the most
\* recent conversion attempt on that slot failed.
C9_ErrorClearedBySuccess ==
    \A s \in DOMAIN slots : slots[s]._errorMsg # <<>> => lastSignal[s] < 0

(***************************************************************************)
(* C10                                                                     *)
(***************************************************************************)
NonConsuming == {"bool", "char"}

StepsOf(kinds) == {k \in DOMAIN events : events[k].kind \in kinds}

ValueReads ==
    {k \in StepsOf({"matched", "crashed"}) : ReadsValue(slots[events[k].slot].type)}

\* C11: whenever parse() invokes the conversion of a matched string, numeric
\* or character argument, position i + 1 is a string of the input; such an
\* argument matched at the last token is reported as a failed conversion and
\* argv[argc] is never read.
C11_ValueWithinInput ==
    InCall =>
        \A k \in ValueReads :
            /\ ~events[k].pastEnd
            /\ events[k].at + 1 >= argc =>
                  /\ events[k].kind = "matched"
                  /\ events[k].ret < 0

====
